---- MODULE Spec2Model ----
(***************************************************************************)
(* Model of libevtx/libevtx_event_values.c: the event record header        *)
(* validation and the binary XML token walk of libevtx_event_values_read.  *)
(*                                                                         *)
(* One call of libevtx_event_values_read is modelled statement by          *)
(* statement; pc is the position of the call.  The inputs of the call      *)
(* (arguments, chunk buffer, offset, previous event values) are chosen in  *)
(* Init, the results of the binary XML token functions are chosen at each  *)
(* call.                                                                   *)
(***************************************************************************)
EXTENDS Integers, Sequences, FiniteSets, TLC

(***************************************************************************)
(* Machine integers.  uint32_t and size_t arithmetic is modular.  The      *)
(* model checker's integers are 32 bit signed, so the widths are scaled:   *)
(* uint32_t is a word of Bits32 bits and size_t a word of BitsSize bits    *)
(* (LP64: size_t is wider than uint32_t).  The inputs of Init keep every   *)
(* decoded field below 2^Bits32.                                           *)
(***************************************************************************)
Bits32 == 16
BitsSize == 24

UINT32_MOD == 2^Bits32
SIZE_MOD == 2^BitsSize
SSIZE_MAX == 2^(BitsSize - 1) - 1

\* Largest chunk buffer of the inputs, and the cap on token reads of one call.
MaxChunkSize == 36
MaxTokens == 4

(***************************************************************************)
(* evtx_event_record_header_t: signature[4], size[4], identifier[8],       *)
(* creation_time[8].                                                       *)
(***************************************************************************)
HeaderSize == 24
SignatureOffset == 0
SizeOffset == 4
IdentifierOffset == 8
CreationTimeOffset == 16

\* "\x2a\x2a\x00\x00"
evtx_event_record_signature == <<42, 42, 0, 0>>

\* the null pointer; allocations are numbered from 1
NULL == 0

\* liberror domains and codes set by libevtx_event_values_read
NoError == <<"NONE", "NONE">>
ErrInvalidValue == <<"ARGUMENTS", "INVALID_VALUE">>
ErrExceedsMaximum == <<"ARGUMENTS", "VALUE_EXCEEDS_MAXIMUM">>
ErrOffsetOutOfBounds == <<"ARGUMENTS", "VALUE_OUT_OF_BOUNDS">>
ErrValueOutOfBounds == <<"RUNTIME", "VALUE_OUT_OF_BOUNDS">>
ErrUnsupportedValue == <<"RUNTIME", "UNSUPPORTED_VALUE">>
ErrInitializeFailed == <<"RUNTIME", "INITIALIZE_FAILED">>
ErrReadFailed == <<"IO", "READ_FAILED">>
ErrFinalizeFailed == <<"RUNTIME", "FINALIZE_FAILED">>

VARIABLES
    args,                   \* which pointer argument is NULL, or "ok"
    chunk_data,             \* the bytes of the chunk buffer, indexed from 0
    chunk_data_size,
    chunk_data_offset,      \* the parameter, advanced by the call
    event_values,           \* *event_values: size, identifier, creation_time
    event_record_data,      \* pointer into chunk_data, as an index
    event_record_data_size,
    copy_of_size,
    binary_xml_token,       \* NULL or the token instance
    pc,
    result,                 \* 0 while running, then 1 or -1
    error,
    record_start,           \* chunk_data_offset at entry
    event_values_before,    \* *event_values at entry
    reads,                  \* chunk_data indexes read by the call itself
    token_reads,            \* libevtx_binary_xml_token_read calls so far
    live_tokens             \* token instances allocated and not freed

\* The caller's libevtx_event_values_t * and the allocator, for
\* libevtx_event_values_initialize and libevtx_event_values_free.
VARIABLES
    handle,                 \* NULL or the allocation the variable points to
    heap,                   \* the allocations that are live
    allocations,            \* allocations made so far
    invalid_frees,          \* memory_free calls on a pointer that is not live
    last_call               \* the last call: its arguments, state before, result

\* Two libevtx_event_values_read calls that run at the same time.
VARIABLES
    buffers,                \* the chunk buffers in memory, by buffer id
    decoder,                \* the behaviour of libevtx_binary_xml_token_read
    calls                   \* the parameters and local variables of each call

two_vars == <<buffers, decoder, calls>>

\* the variables of one libevtx_event_values_read call
read_vars == <<args, chunk_data, chunk_data_size, chunk_data_offset,
               event_values, event_record_data, event_record_data_size,
               copy_of_size, binary_xml_token, pc, result, error, record_start,
               event_values_before, reads, token_reads, live_tokens>>

handle_vars == <<handle, heap, allocations, invalid_frees, last_call>>

vars == <<read_vars, handle_vars, two_vars>>

\* what no statement of libevtx_event_values_read changes
inputs == <<args, chunk_data, chunk_data_size, record_start,
            event_values_before, handle_vars, two_vars>>

(***************************************************************************)
(* Byte stream helpers.                                                    *)
(***************************************************************************)
RECURSIVE ByteOf(_, _)
ByteOf(value, k) == IF k = 0 THEN value % 256 ELSE ByteOf(value \div 256, k - 1)

\* byte_stream_copy_to_uint32/64_little_endian: byte 0 is least significant.
RECURSIVE byte_stream_copy_to_little_endian(_, _, _)
byte_stream_copy_to_little_endian(data, at, n) ==
    IF n = 0 THEN 0
    ELSE data[at] + 256 * byte_stream_copy_to_little_endian(data, at + 1, n - 1)

\* A comparison of 3 instead of 4 signature bytes.
SignatureMatchesShort(data, at) ==
    \A i \in 0..2 : data[at + i] = evtx_event_record_signature[i + 1]

\* memory_compare( header->signature, evtx_event_record_signature, 4 ) == 0
SignatureMatches(data, at) ==
    \A i \in 0..3 : data[at + i] = evtx_event_record_signature[i + 1]

\* uint32_t subtraction event_values->size - 4
Sub32(a, b) == (a - b) % UINT32_MOD
\* size_t arithmetic
SubSize(a, b) == (a - b) % SIZE_MOD
AddSize(a, b) == (a + b) % SIZE_MOD

\* The index of &event_record_data[ event_values->size - 4 ] in chunk_data.
CopyOfSizeIndex(data_at, size) == data_at + Sub32(size, 4)

(***************************************************************************)
(* Inputs of the call.                                                     *)
(***************************************************************************)
\* the largest chunk holds a record whose size takes 2 bytes
ChunkSizes == {10, HeaderSize + 4, MaxChunkSize - 4, MaxChunkSize,
               8 * MaxChunkSize}
ChunkOffsets == {0, 4, MaxChunkSize}
DeclaredSizes == {0, 3, 23, 24, 27, 28, 30, 32, 33, 40, 260}
Signatures == {evtx_event_record_signature, <<0, 0, 0, 0>>,
               <<42, 42, 0, 1>>, <<43, 42, 0, 0>>}
\* identifier and creation time of the record
Stamps == {<<1, 0>>, <<258, 513>>}
\* the trailing copy of size: equal to size, or not
CopyDeltas == {0, 1}
ArgumentCases == {"ok", "event_values", "io_handle", "chunk_data"}
PreviousEventValues ==
    {[size |-> 0, identifier |-> 0, creation_time |-> 0],
     [size |-> 77, identifier |-> 7, creation_time |-> 9]}
\* sizes a decoded token can report, and values an out of bounds read can give
TokenSizes == {0, 1, 4, 8, SIZE_MOD - 4}
UndefinedValues == {0, UINT32_MOD - 1}

\* A chunk buffer of n bytes holding one event record at offset off.
MakeChunk(n, off, sig, size, stamp, copy) ==
    [i \in 0..(n - 1) |->
        LET rel == i - off IN
        IF rel \in 0..3 THEN sig[rel + 1]
        ELSE IF rel \in 4..7 THEN ByteOf(size, rel - SizeOffset)
        ELSE IF rel \in 8..15 THEN ByteOf(stamp[1], rel - IdentifierOffset)
        ELSE IF rel \in 16..23 THEN ByteOf(stamp[2], rel - CreationTimeOffset)
        ELSE IF rel >= HeaderSize /\ rel \in (size - 4)..(size - 1)
             THEN ByteOf(copy, rel - (size - 4))
        ELSE 0]

ChunkLength(data) == Cardinality(DOMAIN data)

\* No handle in use.
NoCall == [function |-> "none"]
HandleIdle ==
    /\ handle = NULL
    /\ heap = {}
    /\ allocations = 0
    /\ invalid_frees = 0
    /\ last_call = NoCall

\* No concurrent calls.
TwoIdle ==
    /\ buffers = <<>>
    /\ decoder = [size |-> 0, fail_at |-> 0]
    /\ calls = <<>>

Init ==
    /\ HandleIdle
    /\ TwoIdle
    /\ args \in ArgumentCases
    /\ \E n \in ChunkSizes, off \in ChunkOffsets, sig \in Signatures,
          size \in DeclaredSizes, stamp \in Stamps, delta \in CopyDeltas :
          /\ chunk_data = MakeChunk(n, off, sig, size, stamp, size + delta)
          /\ chunk_data_offset = off
          /\ record_start = off
          \* the caller passes the length of the buffer, or a length that
          \* is not representable as ssize_t
          /\ chunk_data_size \in {n, SSIZE_MAX + 1}
          /\ (args # "ok" \/ chunk_data_size # n) =>
                 /\ n = HeaderSize + 4 /\ off = 0 /\ size = HeaderSize + 4
                 /\ sig = evtx_event_record_signature
                 /\ stamp = <<1, 0>> /\ delta = 0
          \* the largest chunk is there for the record of the largest size
          /\ n > MaxChunkSize =>
                 /\ off = 0 /\ size > MaxChunkSize /\ size < n
                 /\ sig = evtx_event_record_signature /\ delta = 0
    /\ event_values \in PreviousEventValues
    /\ event_values_before = event_values
    /\ event_record_data = NULL
    /\ event_record_data_size = 0
    /\ copy_of_size = 0
    /\ binary_xml_token = NULL
    /\ pc = "check_arguments"
    /\ result = 0
    /\ error = NoError
    /\ reads = {}
    /\ token_reads = <<>>
    /\ live_tokens = 0

\* return( value ) with the error set by liberror_error_set
Return(value, err) ==
    /\ pc' = "returned"
    /\ result' = value
    /\ error' = err

\* lines 164-218: the argument checks
read_check_arguments ==
    /\ pc = "check_arguments"
    /\ IF args = "event_values" THEN Return(-1, ErrInvalidValue)
       ELSE IF args = "io_handle" THEN Return(-1, ErrInvalidValue)
       ELSE IF args = "chunk_data" THEN Return(-1, ErrInvalidValue)
       ELSE IF chunk_data_size > SSIZE_MAX THEN Return(-1, ErrExceedsMaximum)
       ELSE IF chunk_data_offset >= chunk_data_size
            THEN Return(-1, ErrOffsetOutOfBounds)
       ELSE pc' = "check_data_size" /\ UNCHANGED <<result, error>>
    /\ UNCHANGED <<inputs, chunk_data_offset, event_values, event_record_data,
                   event_record_data_size, copy_of_size, binary_xml_token,
                   reads, token_reads, live_tokens>>

\* A minimum that leaves out the 4 bytes of the copy of size.
DataSizeTooSmallNoCopy(data_size) == data_size < HeaderSize

\* line 222: event_record_data_size < sizeof( evtx_event_record_header_t ) + 4
DataSizeTooSmall(data_size) == data_size < HeaderSize + 4

\* lines 219-232: the record data and the minimum record data size
read_check_data_size ==
    /\ pc = "check_data_size"
    /\ event_record_data' = chunk_data_offset
    /\ event_record_data_size' = SubSize(chunk_data_size, chunk_data_offset)
    /\ IF DataSizeTooSmall(event_record_data_size')
       THEN Return(-1, ErrValueOutOfBounds)
       ELSE pc' = "compare_signature" /\ UNCHANGED <<result, error>>
    /\ UNCHANGED <<inputs, chunk_data_offset, event_values, copy_of_size,
                   binary_xml_token, reads, token_reads, live_tokens>>

\* lines 245-258: the signature
read_compare_signature ==
    /\ pc = "compare_signature"
    /\ reads' = reads \cup
                 ((event_record_data + SignatureOffset)..
                  (event_record_data + SignatureOffset + 3))
    /\ IF ~SignatureMatches(chunk_data, event_record_data + SignatureOffset)
       THEN Return(-1, ErrUnsupportedValue)
       ELSE pc' = "read_header" /\ UNCHANGED <<result, error>>
    /\ UNCHANGED <<inputs, chunk_data_offset, event_values, event_record_data,
                   event_record_data_size, copy_of_size, binary_xml_token,
                   token_reads, live_tokens>>

\* The identifier and the creation time read from each other's field.
read_header_values_swapped ==
    /\ pc = "read_header"
    /\ event_values' =
          [size |-> byte_stream_copy_to_little_endian(
                        chunk_data, event_record_data + SizeOffset, 4),
           identifier |-> byte_stream_copy_to_little_endian(
                        chunk_data, event_record_data + CreationTimeOffset, 8),
           creation_time |-> byte_stream_copy_to_little_endian(
                        chunk_data, event_record_data + IdentifierOffset, 8)]
    /\ reads' = reads \cup ((event_record_data + SizeOffset)..
                            (event_record_data + HeaderSize - 1))
    /\ pc' = "read_copy_of_size"
    /\ UNCHANGED <<inputs, chunk_data_offset, event_record_data,
                   event_record_data_size, copy_of_size, binary_xml_token,
                   result, error, token_reads, live_tokens>>

\* lines 259-269: size, identifier and creation time
read_header_values ==
    /\ pc = "read_header"
    /\ event_values' =
          [size |-> byte_stream_copy_to_little_endian(
                        chunk_data, event_record_data + SizeOffset, 4),
           identifier |-> byte_stream_copy_to_little_endian(
                        chunk_data, event_record_data + IdentifierOffset, 8),
           creation_time |-> byte_stream_copy_to_little_endian(
                        chunk_data, event_record_data + CreationTimeOffset, 8)]
    /\ reads' = reads \cup ((event_record_data + SizeOffset)..
                            (event_record_data + HeaderSize - 1))
    /\ pc' = "read_copy_of_size"
    /\ UNCHANGED <<inputs, chunk_data_offset, event_record_data,
                   event_record_data_size, copy_of_size, binary_xml_token,
                   result, error, token_reads, live_tokens>>

\* lines 271-273: the copy of size in the last 4 bytes of the record.  A read
\* outside of the buffer is undefined: the call is killed or goes on with
\* some value.
read_copy_of_size ==
    /\ pc = "read_copy_of_size"
    /\ LET at == CopyOfSizeIndex(event_record_data, event_values.size) IN
        /\ reads' = reads \cup (at..(at + 3))
        /\ IF at + 3 < ChunkLength(chunk_data)
           THEN /\ copy_of_size' =
                      byte_stream_copy_to_little_endian(chunk_data, at, 4)
                /\ pc' = "check_size"
           ELSE \/ /\ pc' = "crashed"
                   /\ UNCHANGED copy_of_size
                \/ /\ copy_of_size' \in UndefinedValues
                   /\ pc' = "check_size"
    /\ UNCHANGED <<inputs, chunk_data_offset, event_values, event_record_data,
                   event_record_data_size, binary_xml_token, result, error,
                   token_reads, live_tokens>>

\* lines 310-321: the bounds of size
SizeOutOfBounds(size, data_size) ==
    \/ size < HeaderSize
    \/ size > SubSize(data_size, 4)

read_check_size ==
    /\ pc = "check_size"
    /\ IF SizeOutOfBounds(event_values.size, event_record_data_size)
       THEN Return(-1, ErrValueOutOfBounds)
       ELSE pc' = "set_payload" /\ UNCHANGED <<result, error>>
    /\ UNCHANGED <<inputs, chunk_data_offset, event_values, event_record_data,
                   event_record_data_size, copy_of_size, binary_xml_token,
                   reads, token_reads, live_tokens>>

\* lines 323-341: the record data after the header
read_set_payload ==
    /\ pc = "set_payload"
    /\ chunk_data_offset' = AddSize(chunk_data_offset, HeaderSize)
    /\ event_record_data' = event_record_data + HeaderSize
    /\ event_record_data_size' = SubSize(event_values.size, HeaderSize + 4)
    /\ binary_xml_token' = NULL
    /\ pc' = "while"
    /\ UNCHANGED <<inputs, event_values, copy_of_size, result, error, reads,
                   token_reads, live_tokens>>

\* line 343 and line 391: the loop condition
WhileCondition(offset, size) == offset < size

read_while ==
    /\ pc = "while"
    /\ IF WhileCondition(chunk_data_offset, chunk_data_size)
       THEN pc' = "token_initialize" /\ UNCHANGED <<result, error>>
       ELSE Return(1, error)
    /\ UNCHANGED <<inputs, chunk_data_offset, event_values, event_record_data,
                   event_record_data_size, copy_of_size, binary_xml_token,
                   reads, token_reads, live_tokens>>

\* lines 345-357: libevtx_binary_xml_token_initialize
read_token_initialize ==
    /\ pc = "token_initialize"
    /\ \E ok \in BOOLEAN :
        IF ok /\ binary_xml_token = NULL
        THEN /\ binary_xml_token' = [size |-> 0]
             /\ live_tokens' = live_tokens + 1
             /\ pc' = "token_read"
             /\ UNCHANGED <<result, error>>
        ELSE /\ Return(-1, ErrInitializeFailed)
             /\ UNCHANGED <<binary_xml_token, live_tokens>>
    /\ UNCHANGED <<inputs, chunk_data_offset, event_values, event_record_data,
                   event_record_data_size, copy_of_size, reads, token_reads>>

\* A failed token read that is skipped instead of returned.
TokenReadFailedIgnored(read_result) == FALSE

\* line 364: libevtx_binary_xml_token_read( ... ) != 1
TokenReadFailed(read_result) == read_result # 1

\* lines 358-374: libevtx_binary_xml_token_read at chunk_data_offset
read_token_read ==
    /\ pc = "token_read"
    /\ Len(token_reads) < MaxTokens
    /\ \E read_result \in {1, -1}, size \in TokenSizes :
        /\ read_result = -1 => size = 0
        /\ token_reads' = Append(token_reads,
                                 [offset |-> chunk_data_offset,
                                  result |-> read_result,
                                  size |-> size])
        /\ binary_xml_token' = [size |-> size]
        /\ IF TokenReadFailed(read_result)
           THEN Return(-1, ErrReadFailed)
           ELSE pc' = "advance" /\ UNCHANGED <<result, error>>
    /\ UNCHANGED <<inputs, chunk_data_offset, event_values, event_record_data,
                   event_record_data_size, copy_of_size, reads, live_tokens>>

\* line 375: chunk_data_offset += binary_xml_token->size
read_advance ==
    /\ pc = "advance"
    /\ chunk_data_offset' = AddSize(chunk_data_offset, binary_xml_token.size)
    /\ pc' = "token_free"
    /\ UNCHANGED <<inputs, event_values, event_record_data,
                   event_record_data_size, copy_of_size, binary_xml_token,
                   result, error, reads, token_reads, live_tokens>>

\* lines 377-389: libevtx_binary_xml_token_free
read_token_free ==
    /\ pc = "token_free"
    /\ \E ok \in BOOLEAN :
        IF ok
        THEN /\ binary_xml_token' = NULL
             /\ live_tokens' = live_tokens - 1
             /\ pc' = "while"
             /\ UNCHANGED <<result, error>>
        ELSE /\ Return(-1, ErrFinalizeFailed)
             /\ UNCHANGED <<binary_xml_token, live_tokens>>
    /\ UNCHANGED <<inputs, chunk_data_offset, event_values, event_record_data,
                   event_record_data_size, copy_of_size, reads, token_reads>>

Next ==
    \/ read_check_arguments
    \/ read_check_data_size
    \/ read_compare_signature
    \/ read_header_values
    \/ read_copy_of_size
    \/ read_check_size
    \/ read_set_payload
    \/ read_while
    \/ read_token_initialize
    \/ read_token_read
    \/ read_advance
    \/ read_token_free

Spec == Init /\ [][Next]_vars

TypeOK ==
    /\ pc \in {"check_arguments", "check_data_size", "compare_signature",
               "read_header", "read_copy_of_size", "check_size", "set_payload",
               "while", "token_initialize", "token_read", "advance",
               "token_free", "returned", "crashed", "idle"}
    /\ result \in {0, 1, -1}
    /\ live_tokens \in 0..MaxTokens
    /\ Len(token_reads) <= MaxTokens

(***************************************************************************)
(* libevtx_event_values_initialize and libevtx_event_values_free, called   *)
(* in any order on one handle variable.                                    *)
(***************************************************************************)
MaxAllocations == 12

ErrValueAlreadySet == <<"RUNTIME", "VALUE_ALREADY_SET">>
ErrMemoryInsufficient == <<"MEMORY", "INSUFFICIENT">>
ErrMemorySetFailed == <<"MEMORY", "SET_FAILED">>

\* No libevtx_event_values_read call is running.
ReadIdle ==
    /\ args = "ok"
    /\ chunk_data = <<>>
    /\ chunk_data_size = 0
    /\ chunk_data_offset = 0
    /\ record_start = 0
    /\ event_values = [size |-> 0, identifier |-> 0, creation_time |-> 0]
    /\ event_values_before = event_values
    /\ event_record_data = NULL
    /\ event_record_data_size = 0
    /\ copy_of_size = 0
    /\ binary_xml_token = NULL
    /\ pc = "idle"
    /\ result = 0
    /\ error = NoError
    /\ reads = {}
    /\ token_reads = <<>>
    /\ live_tokens = 0

\* memory_free( pointer )
HeapAfterFree(pointer) == heap \ {pointer}
InvalidFreesAfterFree(pointer) ==
    IF pointer \in heap THEN invalid_frees ELSE invalid_frees + 1

\* A free that leaves the pointer in the handle.
HandleKeptAfterFree(pointer) == pointer

\* lines 106 and 137: *event_values = NULL
HandleAfterFree(pointer) == NULL

Called(function, argument, value, err, freed) ==
    last_call' = [function |-> function, argument |-> argument,
                  handle_before |-> handle, heap_before |-> heap,
                  result |-> value, error |-> err, freed |-> freed]

\* lines 42-109.  argument is the event_values parameter: the address of the
\* handle or a null pointer; allocated and cleared are the outcomes of
\* memory_allocate_structure and memory_set.
event_values_initialize ==
    /\ allocations < MaxAllocations
    /\ \E argument \in {"handle", "null"}, allocated \in BOOLEAN,
          cleared \in BOOLEAN :
        LET fresh == allocations + 1 IN
        IF argument = "null"
        THEN /\ Called("initialize", argument, -1, ErrInvalidValue, FALSE)
             /\ UNCHANGED <<handle, heap, allocations, invalid_frees>>
        ELSE IF handle # NULL
        THEN /\ Called("initialize", argument, -1, ErrValueAlreadySet, FALSE)
             /\ UNCHANGED <<handle, heap, allocations, invalid_frees>>
        ELSE IF ~allocated
        THEN \* on_error with *event_values == NULL
             /\ Called("initialize", argument, -1, ErrMemoryInsufficient,
                       FALSE)
             /\ UNCHANGED <<handle, heap, allocations, invalid_frees>>
        ELSE IF ~cleared
        THEN \* on_error: memory_free( *event_values ), *event_values = NULL
             /\ Called("initialize", argument, -1, ErrMemorySetFailed, TRUE)
             /\ allocations' = fresh
             /\ heap' = (heap \cup {fresh}) \ {fresh}
             /\ handle' = HandleAfterFree(fresh)
             /\ UNCHANGED invalid_frees
        ELSE /\ Called("initialize", argument, 1, NoError, FALSE)
             /\ allocations' = fresh
             /\ heap' = heap \cup {fresh}
             /\ handle' = fresh
             /\ UNCHANGED invalid_frees
    /\ UNCHANGED <<read_vars, two_vars>>

\* lines 114-140
event_values_free ==
    /\ \E argument \in {"handle", "null"} :
        IF argument = "null"
        THEN /\ Called("free", argument, -1, ErrInvalidValue, FALSE)
             /\ UNCHANGED <<handle, heap, allocations, invalid_frees>>
        ELSE IF handle # NULL
        THEN /\ Called("free", argument, 1, NoError, TRUE)
             /\ heap' = HeapAfterFree(handle)
             /\ invalid_frees' = InvalidFreesAfterFree(handle)
             /\ handle' = HandleAfterFree(handle)
             /\ UNCHANGED allocations
        ELSE /\ Called("free", argument, 1, NoError, FALSE)
             /\ UNCHANGED <<handle, heap, allocations, invalid_frees>>
    /\ UNCHANGED <<read_vars, two_vars>>

InitHandle == HandleIdle /\ ReadIdle /\ TwoIdle

NextHandle ==
    \/ event_values_initialize
    \/ event_values_free

SpecHandle == InitHandle /\ [][NextHandle]_vars

(***************************************************************************)
(* Two libevtx_event_values_read calls whose statements interleave.  Each  *)
(* call has its own parameters and local variables; the chunk buffers are  *)
(* the memory both calls read.                                             *)
(***************************************************************************)
TwoChunkSize == 64
\* the second event record follows a first record of at most this size
SecondRecordOffset == HeaderSize + 8
TwoOffsets == {0, SecondRecordOffset}
FirstRecordSizes == {20, HeaderSize, HeaderSize + 4, SecondRecordOffset,
                     2 * TwoChunkSize}
TwoSignatures == {evtx_event_record_signature, <<43, 42, 0, 0>>}
\* the token read fails on the tag unknown_tag and reports size otherwise
Decoders == [size : {0, 8, 16}, unknown_tag : {255, 42, 0}]
Callers == {1, 2}

\* A chunk buffer with an event record at offset 0 and one at
\* SecondRecordOffset.
TwoRecordChunk(sig, size) ==
    LET first == MakeChunk(TwoChunkSize, 0, sig, size, <<258, 513>>, size)
        second == MakeChunk(TwoChunkSize, SecondRecordOffset,
                            evtx_event_record_signature, HeaderSize + 4,
                            <<1, 0>>, HeaderSize + 4)
    IN  [i \in 0..(TwoChunkSize - 1) |->
            IF i < SecondRecordOffset THEN first[i] ELSE second[i]]

\* The 4 bytes that lines 271-273 read as the copy of size of the record at
\* offset.
TrailingCopyBytes(data, offset) ==
    LET at == CopyOfSizeIndex(
                  offset,
                  byte_stream_copy_to_little_endian(data, offset + SizeOffset,
                                                    4))
    IN  at..(at + 3)

\* The buffer with other values in the copy of size of the record at offset.
ChangeTrailingCopy(data, offset) ==
    [i \in DOMAIN data |->
        IF i \in TrailingCopyBytes(data, offset)
        THEN (data[i] + 1) % 256
        ELSE data[i]]

\* The high 4 bytes of the identifier and the creation time of the record at
\* offset.
HighBytes(offset) ==
    ((offset + IdentifierOffset + 4)..(offset + IdentifierOffset + 7)) \cup
    ((offset + CreationTimeOffset + 4)..(offset + CreationTimeOffset + 7))

\* The state of a call on entry.
CallOnEntry(buffer, offset) ==
    [chunk_data |-> buffer,
     chunk_data_size |-> TwoChunkSize,
     chunk_data_offset |-> offset,
     record_start |-> offset,
     event_values |-> [size |-> 0, identifier |-> 0, creation_time |-> 0],
     event_record_data |-> NULL,
     event_record_data_size |-> 0,
     copy_of_size |-> 0,
     \* NULL or the address of the token instance, and its size member
     binary_xml_token |-> NULL,
     binary_xml_token_size |-> 0,
     pc |-> "check_arguments",
     result |-> 0,
     error |-> NoError]

InitTwo ==
    /\ HandleIdle
    /\ ReadIdle
    /\ decoder \in Decoders
    /\ \E sig \in TwoSignatures, size \in FirstRecordSizes,
          first \in TwoOffsets, second \in TwoOffsets, changed \in BOOLEAN :
        LET original == TwoRecordChunk(sig, size) IN
        \* the second call reads the same buffer, or a buffer that is
        \* different in the copy of size of its record
        /\ changed =>
              /\ first = second
              /\ TrailingCopyBytes(original, second) \subseteq DOMAIN original
              \* identifier and creation_time keep to their low 4 bytes
              /\ TrailingCopyBytes(original, second) \cap
                     HighBytes(second) = {}
        /\ buffers = <<original,
                       IF changed THEN ChangeTrailingCopy(original, second)
                       ELSE original>>
        /\ calls = <<CallOnEntry(1, first),
                     CallOnEntry(IF changed THEN 2 ELSE 1, second)>>

\* the process is alive and call p is at the statement
At(p, statement) ==
    /\ \A q \in Callers : calls[q].pc # "crashed"
    /\ calls[p].pc = statement

\* call p assigns its variables
Assign(p, values) ==
    /\ calls' = [calls EXCEPT
                    ![p] = [name \in DOMAIN calls[p] |->
                               IF name \in DOMAIN values THEN values[name]
                               ELSE calls[p][name]]]
    /\ UNCHANGED <<buffers, decoder, read_vars, handle_vars>>

\* return( value ) of call p
Returned(value, err) ==
    [pc |-> "returned", result |-> value, error |-> err]

\* lines 164-218
two_check_arguments(p) ==
    /\ At(p, "check_arguments")
    /\ LET c == calls[p] IN
       IF c.chunk_data_size > SSIZE_MAX
       THEN Assign(p, Returned(-1, ErrExceedsMaximum))
       ELSE IF c.chunk_data_offset >= c.chunk_data_size
       THEN Assign(p, Returned(-1, ErrOffsetOutOfBounds))
       ELSE Assign(p, [pc |-> "check_data_size"])

\* lines 219-232
two_check_data_size(p) ==
    /\ At(p, "check_data_size")
    /\ LET c == calls[p]
           data == [event_record_data |-> c.chunk_data_offset,
                    event_record_data_size |->
                        SubSize(c.chunk_data_size, c.chunk_data_offset)]
       IN  IF DataSizeTooSmall(data.event_record_data_size)
           THEN Assign(p, data @@ Returned(-1, ErrValueOutOfBounds))
           ELSE Assign(p, data @@ [pc |-> "compare_signature"])

\* lines 245-258
two_compare_signature(p) ==
    /\ At(p, "compare_signature")
    /\ LET c == calls[p] IN
       IF ~SignatureMatches(buffers[c.chunk_data],
                            c.event_record_data + SignatureOffset)
       THEN Assign(p, Returned(-1, ErrUnsupportedValue))
       ELSE Assign(p, [pc |-> "read_header"])

\* lines 259-269
two_header_values(p) ==
    /\ At(p, "read_header")
    /\ LET c == calls[p]
           data == buffers[c.chunk_data]
       IN  Assign(p,
              [event_values |->
                  [size |-> byte_stream_copy_to_little_endian(
                                data, c.event_record_data + SizeOffset, 4),
                   identifier |-> byte_stream_copy_to_little_endian(
                                data, c.event_record_data + IdentifierOffset,
                                8),
                   creation_time |-> byte_stream_copy_to_little_endian(
                                data,
                                c.event_record_data + CreationTimeOffset, 8)],
               pc |-> "read_copy_of_size"])

\* lines 271-273; a read outside of the buffer kills the process or gives
\* some value
two_copy_of_size(p) ==
    /\ At(p, "read_copy_of_size")
    /\ LET c == calls[p]
           data == buffers[c.chunk_data]
           at == CopyOfSizeIndex(c.event_record_data, c.event_values.size)
       IN  IF at + 3 < ChunkLength(data)
           THEN Assign(p, [copy_of_size |->
                               byte_stream_copy_to_little_endian(data, at, 4),
                           pc |-> "check_size"])
           ELSE \/ Assign(p, [pc |-> "crashed"])
                \/ \E value \in UndefinedValues :
                       Assign(p, [copy_of_size |-> value,
                                  pc |-> "check_size"])

\* lines 310-322
two_check_size(p) ==
    /\ At(p, "check_size")
    /\ LET c == calls[p] IN
       IF SizeOutOfBounds(c.event_values.size, c.event_record_data_size)
       THEN Assign(p, Returned(-1, ErrValueOutOfBounds))
       ELSE Assign(p, [pc |-> "set_payload"])

\* lines 323-341
two_set_payload(p) ==
    /\ At(p, "set_payload")
    /\ LET c == calls[p] IN
       Assign(p, [chunk_data_offset |->
                      AddSize(c.chunk_data_offset, HeaderSize),
                  event_record_data |-> c.event_record_data + HeaderSize,
                  event_record_data_size |->
                      SubSize(c.event_values.size, HeaderSize + 4),
                  binary_xml_token |-> NULL,
                  pc |-> "while"])

\* line 343 and line 391
two_while(p) ==
    /\ At(p, "while")
    /\ LET c == calls[p] IN
       IF WhileCondition(c.chunk_data_offset, c.chunk_data_size)
       THEN Assign(p, [pc |-> "token_initialize"])
       ELSE Assign(p, Returned(1, c.error))

\* the token instance that memory_allocate_structure gives call p
TokenAddress(p) == p

\* lines 345-357
two_token_initialize(p) ==
    /\ At(p, "token_initialize")
    /\ \E ok \in BOOLEAN :
        IF ok /\ calls[p].binary_xml_token = NULL
        THEN Assign(p, [binary_xml_token |-> TokenAddress(p),
                        binary_xml_token_size |-> 0,
                        pc |-> "token_read"])
        ELSE Assign(p, Returned(-1, ErrInitializeFailed))

\* libevtx_binary_xml_token_read: the token at offset of the chunk data
binary_xml_token_read(data, data_size, offset) ==
    IF offset >= data_size \/ offset \notin DOMAIN data
       \/ data[offset] = decoder.unknown_tag
    THEN [result |-> -1, size |-> 0]
    ELSE [result |-> 1, size |-> decoder.size]

\* lines 358-374
two_token_read(p) ==
    /\ At(p, "token_read")
    /\ LET c == calls[p]
           token == binary_xml_token_read(buffers[c.chunk_data],
                                          c.chunk_data_size,
                                          c.chunk_data_offset)
       IN  IF TokenReadFailed(token.result)
           THEN Assign(p, [binary_xml_token_size |-> token.size]
                          @@ Returned(-1, ErrReadFailed))
           ELSE Assign(p, [binary_xml_token_size |-> token.size,
                           pc |-> "advance"])

\* A cursor that is one variable of the program instead of a parameter of
\* the call.
two_advance_shared(p) ==
    /\ At(p, "advance")
    /\ LET offset == AddSize(calls[p].chunk_data_offset,
                             calls[p].binary_xml_token_size)
       IN  /\ calls' = [q \in Callers |->
                           [calls[q] EXCEPT
                               !.chunk_data_offset = offset,
                               !.pc = IF q = p THEN "token_free" ELSE @]]
           /\ UNCHANGED <<buffers, decoder, read_vars, handle_vars>>

\* line 375
two_advance(p) ==
    /\ At(p, "advance")
    /\ LET c == calls[p] IN
       Assign(p, [chunk_data_offset |->
                      AddSize(c.chunk_data_offset, c.binary_xml_token_size),
                  pc |-> "token_free"])

\* lines 377-389
two_token_free(p) ==
    /\ At(p, "token_free")
    /\ \E ok \in BOOLEAN :
        IF ok
        THEN Assign(p, [binary_xml_token |-> NULL, pc |-> "while"])
        ELSE Assign(p, Returned(-1, ErrFinalizeFailed))

NextTwo ==
    \E p \in Callers :
        \/ two_check_arguments(p)
        \/ two_check_data_size(p)
        \/ two_compare_signature(p)
        \/ two_header_values(p)
        \/ two_copy_of_size(p)
        \/ two_check_size(p)
        \/ two_set_payload(p)
        \/ two_while(p)
        \/ two_token_initialize(p)
        \/ two_token_read(p)
        \/ two_advance(p)
        \/ two_token_free(p)

SpecTwo == InitTwo /\ [][NextTwo]_vars

TwoTypeOK ==
    \A p \in Callers :
        /\ calls[p].pc \in {"check_arguments", "check_data_size",
                            "compare_signature", "read_header",
                            "read_copy_of_size", "check_size", "set_payload",
                            "while", "token_initialize", "token_read",
                            "advance", "token_free", "returned", "crashed"}
        /\ calls[p].result \in {0, 1, -1}
        /\ calls[p].chunk_data \in DOMAIN buffers

(***************************************************************************)
(* Terms of the properties.                                                *)
(***************************************************************************)
WalkStates == {"while", "token_initialize", "token_read", "advance",
               "token_free"}
TokenErrors == {ErrInitializeFailed, ErrReadFailed, ErrFinalizeFailed}

\* The call passes the argument, offset and minimum length checks.
PassesEntryChecks ==
    /\ args = "ok"
    /\ chunk_data_size <= SSIZE_MAX
    /\ record_start < chunk_data_size
    /\ chunk_data_size - record_start >= HeaderSize + 4

\* The size field of the record header in the buffer.
DeclaredSize ==
    byte_stream_copy_to_little_endian(chunk_data, record_start + SizeOffset, 4)

\* The first 4 bytes of the record in the buffer.
ProbedSignature == [i \in 1..4 |-> chunk_data[record_start + i - 1]]

PassesSignatureCheck ==
    PassesEntryChecks /\ ProbedSignature = evtx_event_record_signature

\* The record has passed the header validation: the walk has been entered.
Accepted ==
    \/ pc \in WalkStates
    \/ pc = "returned" /\ (result = 1 \/ error \in TokenErrors)

\* The payload range of the record, in unbounded integers.
PayloadOffset == record_start + HeaderSize
PayloadLength == event_values.size - (HeaderSize + 4)
PayloadEnd == PayloadOffset + PayloadLength

TokenIndexes == 1..Len(token_reads)
Succeeded == pc = "returned" /\ result = 1

(***************************************************************************)
(* C1: every token read of an accepted record is made at a cursor inside   *)
(* the payload: payload_offset <= cursor < payload_end.  Stated for the    *)
(* records whose size leaves room for the copy of size, where              *)
(* payload_end >= payload_offset.                                          *)
(***************************************************************************)
C1_TokenReadsInsidePayload ==
    (Accepted /\ PayloadLength >= 0) =>
        \A i \in TokenIndexes :
            /\ PayloadOffset <= token_reads[i].offset
            /\ token_reads[i].offset < PayloadEnd

(***************************************************************************)
(* C2: a successful return leaves the cursor exactly at payload_end, and a *)
(* call in which a token ran past payload_end never returns success.       *)
(* Stated for the records with payload_end >= payload_offset.              *)
(***************************************************************************)
C2_SuccessEndsAtPayloadEnd ==
    (Succeeded /\ PayloadLength >= 0) =>
        /\ chunk_data_offset = PayloadEnd
        /\ \A i \in TokenIndexes :
              token_reads[i].offset + token_reads[i].size <= PayloadEnd

(***************************************************************************)
(* C3: the copy of size is read only once size has passed the bounds       *)
(* check, and every byte the call reads lies inside the chunk buffer, at   *)
(* or after the offset of the record.                                      *)
(***************************************************************************)
C3_ReadsInsideChunk ==
    /\ \A i \in reads : record_start <= i /\ i < chunk_data_size
    /\ pc \in {"check_size", "crashed"} =>
          ~SizeOutOfBounds(event_values.size, event_record_data_size)

(***************************************************************************)
(* C4: a token of size 0 makes the call fail, and no two consecutive token *)
(* reads are made at the same cursor.                                      *)
(***************************************************************************)
C4_ZeroSizeTokenFails ==
    /\ \A i \in TokenIndexes :
          (i < Len(token_reads)) =>
              token_reads[i + 1].offset # token_reads[i].offset
    /\ (pc = "returned"
        /\ \E i \in TokenIndexes :
              token_reads[i].result = 1 /\ token_reads[i].size = 0)
          => result = -1

(***************************************************************************)
(* C5: while every token read reports a size of at least 1, an accepted    *)
(* record is walked in at most payload_length token reads.  Stated for the *)
(* records with payload_length >= 0.                                       *)
(***************************************************************************)
C5_AtMostPayloadLengthReads ==
    (Accepted
     /\ PayloadLength >= 0
     /\ \A i \in TokenIndexes :
           token_reads[i].result = 1 /\ token_reads[i].size >= 1)
        => Len(token_reads) <= PayloadLength

(***************************************************************************)
(* C6: for an accepted record the computed payload length is               *)
(* size - (header size + 4) without wrap around, and                       *)
(* payload_offset + payload_length + 4 = record_start + size.              *)
(***************************************************************************)
C6_PayloadLengthExact ==
    pc \in WalkStates =>
        /\ event_record_data_size = event_values.size - (HeaderSize + 4)
        /\ event_record_data + event_record_data_size + 4
              = record_start + event_values.size

(***************************************************************************)
(* C7: past the signature check, a declared size that is 0, less than the  *)
(* header size or greater than the remaining size - 4 ends the call with   *)
(* the out of bounds error, and no token is read.                          *)
(***************************************************************************)
BadDeclaredSize ==
    \/ DeclaredSize < HeaderSize
    \/ DeclaredSize > (chunk_data_size - record_start) - 4

C7_BoundsGate ==
    (PassesSignatureCheck /\ BadDeclaredSize) =>
        /\ token_reads = <<>>
        /\ pc \notin WalkStates
        /\ pc # "crashed"
        /\ pc = "returned" => result = -1 /\ error = ErrValueOutOfBounds

(***************************************************************************)
(* C8: a record whose signature is not 2A 2A 00 00 is rejected with the    *)
(* unsupported signature error whatever its other bytes are; size,         *)
(* identifier, creation time and copy of size are neither read nor stored. *)
(***************************************************************************)
C8_SignatureGate ==
    (PassesEntryChecks /\ ProbedSignature # evtx_event_record_signature) =>
        /\ event_values = event_values_before
        /\ copy_of_size = 0
        /\ reads \subseteq record_start..(record_start + 3)
        /\ pc \in {"check_arguments", "check_data_size", "compare_signature",
                   "returned"}
        /\ pc = "returned" => result = -1 /\ error = ErrUnsupportedValue

\* A rejected signature in front of a size field that is out of bounds too.
C8_Witness ==
    /\ PassesEntryChecks
    /\ ProbedSignature # evtx_event_record_signature
    /\ ProbedSignature[1] = evtx_event_record_signature[1]
    /\ BadDeclaredSize
    /\ pc = "returned"
    /\ error = ErrUnsupportedValue

(***************************************************************************)
(* C9: at most one token instance is live at any moment, and none is live  *)
(* when the call has returned.                                             *)
(***************************************************************************)
C9_TokensReleased ==
    /\ live_tokens <= 1
    /\ pc = "returned" => live_tokens = 0

(***************************************************************************)
(* C10: a failed token read is the last one: the call has returned -1 and  *)
(* the cursor is where the failed read was made.                           *)
(***************************************************************************)
C10_TokenReadFailureIsFinal ==
    \A i \in TokenIndexes :
        token_reads[i].result # 1 =>
            /\ i = Len(token_reads)
            /\ pc = "returned"
            /\ result = -1
            /\ error = ErrReadFailed
            /\ chunk_data_offset = token_reads[i].offset

\* A token read that fails after an earlier token was read and passed over.
C10_Witness ==
    /\ Len(token_reads) >= 2
    /\ token_reads[1].result = 1
    /\ token_reads[Len(token_reads)].result # 1
    /\ token_reads[Len(token_reads)].offset > token_reads[1].offset
    /\ pc = "returned"

(***************************************************************************)
(* C11: a record of size header size + 4 (payload_length = 0) that passes  *)
(* the bounds check is walked without a token read and returns success.    *)
(***************************************************************************)
C11_EmptyPayloadSucceeds ==
    (PassesSignatureCheck /\ DeclaredSize = HeaderSize + 4
     /\ ~BadDeclaredSize) =>
        /\ token_reads = <<>>
        /\ pc \notin {"token_initialize", "token_read", "advance",
                      "token_free"}
        /\ pc = "returned" => result = 1

(***************************************************************************)
(* C12: the checks are made in the order offset, minimum size, signature,  *)
(* size.  A record data size below header size + 4 is rejected before any  *)
(* header byte is read, with an error kind that is none of the kinds of    *)
(* the other three failures.                                               *)
(***************************************************************************)
TooSmallInput ==
    /\ args = "ok"
    /\ chunk_data_size <= SSIZE_MAX
    /\ record_start < chunk_data_size
    /\ chunk_data_size - record_start < HeaderSize + 4

RECURSIVE ShiftRight(_, _)
ShiftRight(value, k) ==
    IF k = 0 THEN value ELSE ShiftRight(value \div 256, k - 1)

\* value is the number whose n base 256 digits, lowest first, are the bytes
\* of the buffer from index at on
IsLittleEndianOf(value, at, n) ==
    /\ value >= 0
    /\ \A k \in 0..(n - 1) : ShiftRight(value, k) % 256 = chunk_data[at + k]
    /\ ShiftRight(value, n) = 0

C13_StoredValuesLittleEndian ==
    Accepted =>
        /\ IsLittleEndianOf(event_values.size, record_start + 4, 4)
        /\ IsLittleEndianOf(event_values.identifier, record_start + 8, 8)
        /\ IsLittleEndianOf(event_values.creation_time, record_start + 16, 8)

\* An accepted record whose three fields all have a second byte set.
C13_Witness ==
    /\ Accepted
    /\ event_values.size >= 256
    /\ event_values.identifier >= 256
    /\ event_values.creation_time >= 256
    /\ event_values.identifier # event_values.creation_time
    /\ event_values # event_values_before

(***************************************************************************)
(* C16: a call that returns -1 leaves size, identifier and creation time   *)
(* of the event values as they were before the call.                       *)
(***************************************************************************)
C16_FailureKeepsEventValues ==
    (pc = "returned" /\ result = -1) => event_values = event_values_before

(***************************************************************************)
(* C18: every token read is made at an offset below chunk_data_size, and   *)
(* the offsets of successive token reads never decrease.                   *)
(***************************************************************************)
C18_TokenReadOffsetsMonotonic ==
    \A i \in TokenIndexes :
        /\ token_reads[i].offset < chunk_data_size
        /\ (i < Len(token_reads)) =>
              token_reads[i + 1].offset >= token_reads[i].offset

(***************************************************************************)
(* C17: for every sequence of initialize and free calls on one handle that *)
(* starts as NULL: the handle is not NULL exactly when one allocation is   *)
(* live, and it is that allocation; nothing is freed twice; initialize on  *)
(* a handle that is not NULL fails with value already set and changes      *)
(* nothing; an initialize that fails on a NULL handle leaves it NULL and   *)
(* no allocation live; free leaves the handle NULL and succeeds, and on a  *)
(* NULL handle frees nothing.                                              *)
(***************************************************************************)
OnHandle(function) ==
    last_call.function = function /\ last_call.argument = "handle"

C17_HandleLifecycle ==
    /\ heap = (IF handle = NULL THEN {} ELSE {handle})
    /\ invalid_frees = 0
    /\ (OnHandle("initialize") /\ last_call.handle_before # NULL) =>
          /\ last_call.result = -1
          /\ last_call.error = ErrValueAlreadySet
          /\ handle = last_call.handle_before
          /\ heap = last_call.heap_before
    /\ (OnHandle("initialize") /\ last_call.handle_before = NULL) =>
          IF last_call.result = 1
          THEN handle # NULL /\ handle \notin last_call.heap_before
          ELSE handle = NULL /\ heap = {}
    /\ OnHandle("free") =>
          /\ last_call.result = 1
          /\ handle = NULL
          /\ last_call.freed = (last_call.handle_before # NULL)

\* A second free, on the handle that a first free has set to NULL.
C17_Witness ==
    /\ OnHandle("free")
    /\ last_call.handle_before = NULL
    /\ last_call.result = 1
    /\ allocations >= 2
    /\ heap = {}

(***************************************************************************)
(* The call on its own, as a function of its parameters: what lines        *)
(* 145-395 return and store when no other call runs and no token           *)
(* allocation fails.                                                       *)
(***************************************************************************)
\* more loop iterations than a cursor that moves needs for the chunk
WalkFuel == TwoChunkSize

RECURSIVE WalkAlone(_, _, _, _)
WalkAlone(data, data_size, offset, fuel) ==
    IF ~WhileCondition(offset, data_size)
    THEN [result |-> 1, error |-> NoError]
    ELSE IF fuel = 0
    THEN [result |-> 0, error |-> NoError]
    ELSE LET token == binary_xml_token_read(data, data_size, offset) IN
         IF TokenReadFailed(token.result)
         THEN [result |-> -1, error |-> ErrReadFailed]
         ELSE WalkAlone(data, data_size, AddSize(offset, token.size),
                        fuel - 1)

ReadAlone(data, data_size, offset, values_on_entry) ==
    LET kept(err) == [result |-> -1, error |-> err,
                      event_values |-> values_on_entry]
        stored == [size |-> byte_stream_copy_to_little_endian(
                                data, offset + SizeOffset, 4),
                   identifier |-> byte_stream_copy_to_little_endian(
                                data, offset + IdentifierOffset, 8),
                   creation_time |-> byte_stream_copy_to_little_endian(
                                data, offset + CreationTimeOffset, 8)]
    IN  IF data_size > SSIZE_MAX THEN kept(ErrExceedsMaximum)
        ELSE IF offset >= data_size THEN kept(ErrOffsetOutOfBounds)
        ELSE IF DataSizeTooSmall(SubSize(data_size, offset))
        THEN kept(ErrValueOutOfBounds)
        ELSE IF ~SignatureMatches(data, offset + SignatureOffset)
        THEN kept(ErrUnsupportedValue)
        ELSE IF SizeOutOfBounds(stored.size, SubSize(data_size, offset))
        THEN [result |-> -1, error |-> ErrValueOutOfBounds,
              event_values |-> stored]
        ELSE WalkAlone(data, data_size, AddSize(offset, HeaderSize), WalkFuel)
             @@ [event_values |-> stored]

\* what call p does on its own
Alone(p) ==
    ReadAlone(buffers[calls[p].chunk_data], calls[p].chunk_data_size,
              calls[p].record_start,
              [size |-> 0, identifier |-> 0, creation_time |-> 0])

\* both calls read the same chunk buffer
SameChunkBuffer ==
    /\ calls # <<>>
    /\ calls[1].chunk_data = calls[2].chunk_data

\* A step of a call leaves the chunk buffers, the token decoder and the
\* variables of the other call as they are.
StepIsPrivate ==
    /\ buffers' = buffers
    /\ decoder' = decoder
    /\ \E p \in Callers : \A q \in Callers \ {p} : calls'[q] = calls[q]

\* A call that has returned without a failed token allocation has the
\* result, the error and the event values of the call on its own.
ReturnsAsAlone ==
    SameChunkBuffer =>
        \A p \in Callers :
            calls[p].pc = "returned" =>
                /\ calls[p].event_values = Alone(p).event_values
                /\ calls[p].error \notin
                       {ErrInitializeFailed, ErrFinalizeFailed} =>
                       /\ calls[p].result = Alone(p).result
                       /\ calls[p].error = Alone(p).error

\* C14: two libevtx_event_values_read calls on the same chunk buffer, with
\* their own event_values and offset, under every interleaving: no step
\* writes the chunk buffer or anything the other call reads, and each call
\* returns the result and stores the event values it has on its own.
C14_ConcurrentCallsIndependent ==
    /\ [][SameChunkBuffer => StepIsPrivate]_vars
    /\ []ReturnsAsAlone

\* both calls have walked tokens of the same buffer, at different offsets, at
\* the same time, and both have returned, one of them with success
C14_Witness ==
    /\ SameChunkBuffer
    /\ calls[1].record_start # calls[2].record_start
    /\ calls[1].pc = "returned" /\ calls[2].pc = "returned"
    /\ calls[1].result = 1
    /\ calls[2].error = ErrReadFailed

\* the header validation of call p is over: the call has failed in it or has
\* set the payload
Validated(p) ==
    \/ calls[p].pc \in WalkStates
    \/ calls[p].pc = "returned"

\* the outcome of the header validation of call p: accept, or the error
ValidationOutcome(p) ==
    IF calls[p].pc \in WalkStates \/ calls[p].error \in TokenErrors
       \/ calls[p].result = 1
    THEN <<"accept">>
    ELSE calls[p].error

\* The chunk buffers of the two calls differ, and only in the 4 bytes that
\* are the copy of size of the record in each of them; the calls read the
\* record at the same offset.
DifferOnlyInTrailingCopy ==
    /\ calls # <<>>
    /\ calls[1].record_start = calls[2].record_start
    /\ buffers[1] # buffers[2]
    /\ calls[1].chunk_data = 1 /\ calls[2].chunk_data = 2
    /\ DOMAIN buffers[1] = DOMAIN buffers[2]
    /\ \A i \in DOMAIN buffers[1] :
          buffers[1][i] # buffers[2][i] =>
              /\ i \in TrailingCopyBytes(buffers[1], calls[1].record_start)
              /\ i \in TrailingCopyBytes(buffers[2], calls[2].record_start)

\* C15: the header validation reads the copy of size and does not compare
\* it with size: for two chunk buffers that differ only in the 4 bytes of
\* the copy of size, the validation outcome (accept or the same error) and
\* the stored size, identifier and creation_time, the payload offset and the
\* payload length are the same.
C15_TrailingCopyIgnored ==
    (DifferOnlyInTrailingCopy /\ Validated(1) /\ Validated(2)) =>
        /\ ValidationOutcome(1) = ValidationOutcome(2)
        /\ calls[1].event_values = calls[2].event_values
        /\ (ValidationOutcome(1) = <<"accept">>) =>
              /\ calls[1].event_record_data = calls[2].event_record_data
              /\ calls[1].event_record_data_size =
                     calls[2].event_record_data_size

====
